---- MODULE Spec2Model ----
(***************************************************************************)
(* Model of nautobot/core/cli.py: the settings normalizer                  *)
(* _configure_settings(config), run by run_app after the defaults and the  *)
(* user's configuration file have been merged into one settings object.    *)
(*                                                                         *)
(* One run of _configure_settings is one action, ConfigureSettings.  Its   *)
(* sections are operators on a run record s (the settings object, the      *)
(* filesystem, the effects observed so far and the exception raised, if    *)
(* any), composed in the order of the source.  A section that finds        *)
(* s.error set does nothing: a Python raise ends the function.             *)
(*                                                                         *)
(* Modelling conventions                                                   *)
(*  - a filesystem path is a sequence of components, os.path.join appends; *)
(*    the filesystem is the set of paths that exist.  Paths that exist are *)
(*    directories, except JOBS_ROOT/__init__.py, which is a file.          *)
(*  - a dotted Python identifier that the code inspects by prefix          *)
(*    (STORAGE_BACKEND) is the sequence of its dot-separated components;   *)
(*    Python's None is the value None below.                               *)
(*  - other strings are TLA+ strings, \o is concatenation.                 *)
(***************************************************************************)
EXTENDS Integers, Sequences, FiniteSets, TLC

VARIABLES
    settings,            \* the settings object (config["settings"])
    fs,                  \* the paths that exist on disk
    storages_import,     \* what `import storages.utils` does in this environment
    storages_setting,    \* the function bound to storages.utils.setting
    error,               \* the exception the last run raised, or NoError
    runs,                \* how many times _configure_settings has run
    creates,             \* the create operations the last run performed
    warned,              \* the number of warnings the last run emitted
    load_plugins_calls,  \* the INSTALLED_APPS argument of every load_plugins call
    lookup               \* the last call of storages.utils.setting and its result

vars == <<settings, fs, storages_import, storages_setting, error, runs, creates,
          warned, load_plugins_calls, lookup>>

\* The number of runs of _configure_settings on one settings object.
MaxRuns == 3

----------------------------------------------------------------------------
(* Values *)

None == <<"None">>

NoError == "none"
ErrAuth == "ImproperlyConfigured: AUTHENTICATION_BACKENDS"
ErrUrl == "ImproperlyConfigured: RELEASE_CHECK_URL"
ErrTimeout == "ImproperlyConfigured: RELEASE_CHECK_TIMEOUT"
ErrStorage == "ImproperlyConfigured: django-storages is not present"
ErrModuleNotFound == "ModuleNotFoundError"
ErrFileExists == "FileExistsError"
ErrFileNotFound == "FileNotFoundError"

ImproperlyConfigured == {ErrAuth, ErrUrl, ErrTimeout, ErrStorage}

ObjectPermissionBackend == "nautobot.core.authentication.ObjectPermissionBackend"
ModelBackend == "django.contrib.auth.backends.ModelBackend"

ConfigPath == "nautobot_config.py"

MinReleaseCheckTimeout == 3600

Range(seq) == {seq[i] : i \in 1..Len(seq)}

----------------------------------------------------------------------------
(* The filesystem *)

Join(path, name) == Append(path, name)

Parent(path) == SubSeq(path, 1, Len(path) - 1)

Prefixes(path) == {SubSeq(path, 1, i) : i \in 1..Len(path)}

Exists(s, path) == path \in s.fs

Raised(s) == s.error # NoError

\* os.makedirs(path), exist_ok=False: creates the leaf and every missing parent.
Makedirs(s, path) ==
    IF Raised(s) THEN s
    ELSE IF path \in s.fs THEN [s EXCEPT !.error = ErrFileExists]
    ELSE [s EXCEPT !.fs = @ \cup Prefixes(path),
                   !.creates = Append(@, <<"makedirs", path>>)]

\* Path(path).touch(): creates the file; its directory must exist.
Touch(s, path) ==
    IF Raised(s) THEN s
    ELSE IF Parent(path) \notin s.fs THEN [s EXCEPT !.error = ErrFileNotFound]
    ELSE [s EXCEPT !.fs = @ \cup {path},
                   !.creates = Append(@, <<"touch", path>>)]

\* A mutant of EnsureDir: the directory is created without the existence check.
EnsureDirUnguarded(s, path) == Makedirs(s, path)

\* if not os.path.exists(path): os.makedirs(path)
EnsureDir(s, path) ==
    IF Raised(s) \/ Exists(s, path) THEN s ELSE Makedirs(s, path)

\* if not os.path.exists(path): Path(path).touch()
EnsureFile(s, path) ==
    IF Raised(s) \/ Exists(s, path) THEN s ELSE Touch(s, path)

JobsInit(st) == Join(st.JOBS_ROOT, "__init__.py")
DeviceTypeImages(st) == Join(st.MEDIA_ROOT, "devicetype-images")
ImageAttachments(st) == Join(st.MEDIA_ROOT, "image-attachments")

\* The paths the storage-directories section ensures.
StoragePaths(st) ==
    {st.GIT_ROOT, st.JOBS_ROOT, JobsInit(st), st.MEDIA_ROOT,
     DeviceTypeImages(st), ImageAttachments(st), st.STATIC_ROOT}

StorageDirectories(s) ==
    LET st == s.settings
        s1 == EnsureDir(s, st.GIT_ROOT)
        s2 == EnsureDir(s1, st.JOBS_ROOT)
        s3 == EnsureFile(s2, JobsInit(st))
        s4 == EnsureDir(s3, st.MEDIA_ROOT)
        s5 == EnsureDir(s4, DeviceTypeImages(st))
        s6 == EnsureDir(s5, ImageAttachments(st))
    IN  EnsureDir(s6, st.STATIC_ROOT)

----------------------------------------------------------------------------
(* Databases *)

PostgresEngine == "django.db.backends.postgresql"
PrometheusPostgresEngine == "django_prometheus.db.backends.postgresql"
MysqlEngine == "django.db.backends.mysql"

\* "postgres" in engine, over the engine strings of the model.
ContainsPostgres(engine) == engine \in {PostgresEngine, PrometheusPostgresEngine}

Databases(s) ==
    IF Raised(s) THEN s
    ELSE IF s.settings.METRICS_ENABLED /\ ContainsPostgres(s.settings.DATABASES.default.ENGINE)
    THEN [s EXCEPT !.settings.DATABASES.default.ENGINE = PrometheusPostgresEngine]
    ELSE s

----------------------------------------------------------------------------
(* Pagination *)

\* x placed after the elements of the ascending sequence seq that are <= x.
InsertSorted(x, seq) ==
    LET k == Cardinality({i \in 1..Len(seq) : seq[i] <= x})
    IN  SubSeq(seq, 1, k) \o <<x>> \o SubSeq(seq, k + 1, Len(seq))

RECURSIVE sorted(_)
\* Python's sorted(seq) on a list of integers.
sorted(seq) ==
    IF seq = <<>> THEN <<>>
    ELSE InsertSorted(seq[Len(seq)], sorted(SubSeq(seq, 1, Len(seq) - 1)))

\* A mutant of Pagination: the value is appended without the membership test.
PaginationAlwaysAppends(s) ==
    IF Raised(s) THEN s
    ELSE [s EXCEPT !.settings.PER_PAGE_DEFAULTS =
                        sorted(Append(@, s.settings.PAGINATE_COUNT))]

Pagination(s) ==
    IF Raised(s) THEN s
    ELSE IF s.settings.PAGINATE_COUNT \notin Range(s.settings.PER_PAGE_DEFAULTS)
    THEN [s EXCEPT !.settings.PER_PAGE_DEFAULTS =
                        sorted(Append(@, s.settings.PAGINATE_COUNT))]
    ELSE s

----------------------------------------------------------------------------
(* Authentication *)

\* A mutant of Authentication: the check looks at the first backend only.
AuthenticationFirstOnly(s) ==
    IF Raised(s) THEN s
    ELSE IF s.settings.AUTHENTICATION_BACKENDS = <<>>
            \/ s.settings.AUTHENTICATION_BACKENDS[1] # ObjectPermissionBackend
    THEN [s EXCEPT !.error = ErrAuth]
    ELSE s

Authentication(s) ==
    IF Raised(s) THEN s
    ELSE IF ObjectPermissionBackend \notin Range(s.settings.AUTHENTICATION_BACKENDS)
    THEN [s EXCEPT !.error = ErrAuth]
    ELSE s

----------------------------------------------------------------------------
(* Releases *)

\* URLValidator(schemes): the constructor of django's validator class.  Its first
\* positional parameter is the list of accepted schemes; it stores the argument
\* and validates nothing, so it never raises ValidationError.  (Validation is
\* what calling the constructed validator does; the code never calls it.)
URLValidator(schemes) == [schemes |-> schemes, raisesValidationError |-> FALSE]

ReleaseCheckUrl(s) ==
    IF Raised(s) THEN s
    ELSE IF s.settings.RELEASE_CHECK_URL # ""
            /\ URLValidator(s.settings.RELEASE_CHECK_URL).raisesValidationError
    THEN [s EXCEPT !.error = ErrUrl]
    ELSE s

\* A mutant of ReleaseCheckTimeout: the comparison is <= instead of <.
ReleaseCheckTimeoutInclusive(s) ==
    IF Raised(s) THEN s
    ELSE IF s.settings.RELEASE_CHECK_TIMEOUT <= MinReleaseCheckTimeout
    THEN [s EXCEPT !.error = ErrTimeout]
    ELSE s

ReleaseCheckTimeout(s) ==
    IF Raised(s) THEN s
    ELSE IF s.settings.RELEASE_CHECK_TIMEOUT < MinReleaseCheckTimeout
    THEN [s EXCEPT !.error = ErrTimeout]
    ELSE s

----------------------------------------------------------------------------
(* Media storage *)

\* backend.startswith("storages.")
StartsWithStorages(backend) == Len(backend) > 1 /\ backend[1] = "storages"

\* A mutant of MediaStorage: the backend is not copied to DEFAULT_FILE_STORAGE.
MediaStorageNoCopy(s) ==
    IF Raised(s) \/ s.settings.STORAGE_BACKEND = None THEN s
    ELSE IF ~StartsWithStorages(s.settings.STORAGE_BACKEND) THEN s
    ELSE IF s.import = "ok" THEN [s EXCEPT !.storages_setting = "_setting"]
    ELSE IF s.import = "no storages" THEN [s EXCEPT !.error = ErrStorage]
    ELSE [s EXCEPT !.error = ErrModuleNotFound]

MediaStorage(s) ==
    IF Raised(s) \/ s.settings.STORAGE_BACKEND = None THEN s
    ELSE LET s1 == [s EXCEPT !.settings.DEFAULT_FILE_STORAGE = s.settings.STORAGE_BACKEND]
         IN  IF ~StartsWithStorages(s.settings.STORAGE_BACKEND) THEN s1
             ELSE IF s.import = "ok" THEN [s1 EXCEPT !.storages_setting = "_setting"]
             ELSE IF s.import = "no storages" THEN [s1 EXCEPT !.error = ErrStorage]
             ELSE [s1 EXCEPT !.error = ErrModuleNotFound]

\* A mutant of StorageWarning: the warning is raised as a configuration error.
StorageWarningFatal(s) ==
    IF Raised(s) THEN s
    ELSE IF DOMAIN s.settings.STORAGE_CONFIG # {} /\ s.settings.STORAGE_BACKEND = None
    THEN [s EXCEPT !.warned = @ + 1, !.error = ErrStorage]
    ELSE s

StorageWarning(s) ==
    IF Raised(s) THEN s
    ELSE IF DOMAIN s.settings.STORAGE_CONFIG # {} /\ s.settings.STORAGE_BACKEND = None
    THEN [s EXCEPT !.warned = @ + 1]
    ELSE s

----------------------------------------------------------------------------
(* SSO *)

GoogleOAuth2 == "social_core.backends.google.GoogleOAuth2"
OktaOAuth2 == "social_core.backends.okta.OktaOAuth2"

\* The SSO backend-name resolver: the name of the backend a module identifier
\* designates.
get_sso_backend_name(social_auth_module) ==
    IF social_auth_module = GoogleOAuth2 THEN "google-oauth2" ELSE "okta-oauth2"

\* A mutant of LoginUrl: the base path is left out of the login URL.
LoginUrlNoBasePath(base_path, backend_name) ==
    "/" \o "login/" \o backend_name \o "/"

\* "/{}login/{}/".format(base_path, backend_name)
LoginUrl(base_path, backend_name) ==
    "/" \o base_path \o "login/" \o backend_name \o "/"

\* A mutant of SSO: the SSO backend is appended instead of inserted at the front.
SSOAppendsBackend(s) ==
    IF Raised(s) \/ ~s.settings.SOCIAL_AUTH_ENABLED THEN s
    ELSE [s EXCEPT
            !.settings.INSTALLED_APPS = Append(@, "social_django"),
            !.settings.AUTHENTICATION_BACKENDS = Append(@, s.settings.SOCIAL_AUTH_MODULE),
            !.settings.LOGIN_URL =
                LoginUrl(s.settings.BASE_PATH,
                         get_sso_backend_name(s.settings.SOCIAL_AUTH_MODULE))]

SSO(s) ==
    IF Raised(s) \/ ~s.settings.SOCIAL_AUTH_ENABLED THEN s
    ELSE [s EXCEPT
            !.settings.INSTALLED_APPS = Append(@, "social_django"),
            !.settings.AUTHENTICATION_BACKENDS = <<s.settings.SOCIAL_AUTH_MODULE>> \o @,
            !.settings.LOGIN_URL =
                LoginUrl(s.settings.BASE_PATH,
                         get_sso_backend_name(s.settings.SOCIAL_AUTH_MODULE))]

----------------------------------------------------------------------------
(* Plugins *)

\* The plugin loader: it receives the six arguments; with the plugin list of the
\* model (empty) it registers nothing.
load_plugins(s, plugins, installed_apps, plugins_config, version, middleware, cacheops) ==
    [s EXCEPT !.load_plugins_calls =
                  Append(@, [PLUGINS |-> plugins, INSTALLED_APPS |-> installed_apps,
                             PLUGINS_CONFIG |-> plugins_config, VERSION |-> version,
                             MIDDLEWARE |-> middleware, CACHEOPS |-> cacheops])]

Plugins(s) ==
    IF Raised(s) THEN s
    ELSE load_plugins(s, s.settings.PLUGINS, s.settings.INSTALLED_APPS,
                      s.settings.PLUGINS_CONFIG, s.settings.VERSION,
                      s.settings.MIDDLEWARE, s.settings.CACHEOPS)

----------------------------------------------------------------------------
(* _configure_settings *)

\* settings.SETTINGS_PATH = config["config_path"]
SettingsPath(s) == [s EXCEPT !.settings.SETTINGS_PATH = ConfigPath]

\* The sections of _configure_settings, in the order of the source.
Normalize(s) ==
    Plugins(SSO(StorageWarning(MediaStorage(ReleaseCheckTimeout(ReleaseCheckUrl(
        Authentication(Pagination(Databases(StorageDirectories(SettingsPath(s)))))))))))

ConfigureSettings ==
    /\ runs < MaxRuns
    /\ LET s == Normalize([settings |-> settings, fs |-> fs, import |-> storages_import,
                           storages_setting |-> storages_setting, error |-> NoError,
                           creates |-> <<>>, warned |-> 0,
                           load_plugins_calls |-> load_plugins_calls])
       IN  /\ settings' = s.settings
           /\ fs' = s.fs
           /\ storages_setting' = s.storages_setting
           /\ error' = s.error
           /\ creates' = s.creates
           /\ warned' = s.warned
           /\ load_plugins_calls' = s.load_plugins_calls
    /\ runs' = runs + 1
    /\ UNCHANGED <<storages_import, lookup>>

----------------------------------------------------------------------------
(* storages.utils.setting *)

\* The names of the globals of the cli module and their values.
ModuleGlobals ==
    ("DEFAULT_SETTINGS" :> "nautobot.core.settings") @@ ("SETTINGS_ENVVAR" :> "NAUTOBOT_CONFIG")

\* _setting(name, default), the replacement the media-storage section installs.
_setting(name, default) ==
    IF name \in DOMAIN settings.STORAGE_CONFIG THEN settings.STORAGE_CONFIG[name]
    ELSE IF name \in DOMAIN ModuleGlobals THEN ModuleGlobals[name]
    ELSE default

\* django-storages' own setting(name, default): getattr(settings, name, default).
StoragesOwnSetting(name, default) ==
    IF name \in {"BASE_PATH", "LOGIN_URL"} THEN settings[name] ELSE default

SettingNames == {"AWS_LOCATION", "AWS_S3_REGION_NAME", "DEFAULT_SETTINGS", "BASE_PATH"}
SettingDefaults == {"None"}

\* A caller (the storage backend) looks a setting up through storages.utils.setting.
CallSetting ==
    /\ storages_import = "ok"
    /\ \E name \in SettingNames, default \in SettingDefaults :
          lookup' = [name |-> name, default |-> default,
                     via |-> storages_setting,
                     value |-> IF storages_setting = "_setting"
                               THEN _setting(name, default)
                               ELSE StoragesOwnSetting(name, default)]
    /\ UNCHANGED <<settings, fs, storages_import, storages_setting, error, runs,
                   creates, warned, load_plugins_calls>>

----------------------------------------------------------------------------
(* Initial states: the settings object after the defaults and the user's file
   have been merged, on a filesystem where any of the storage paths may or may
   not exist yet. *)

FileSystemStorage == <<"django", "core", "files", "storage", "FileSystemStorage">>
S3Boto3Storage == <<"storages", "backends", "s3boto3", "S3Boto3Storage">>

NoStorageConfig == <<>>
AwsStorageConfig == ("AWS_ACCESS_KEY_ID" :> "AKIA") @@ ("AWS_LOCATION" :> "nautobot")

WellFormedUrl == "https://api.github.com/repos/x/y"
MalformedUrl == "not-a-url"

DefaultSettings ==
    [SETTINGS_PATH |-> "",
     GIT_ROOT |-> <<"nb", "git">>,
     JOBS_ROOT |-> <<"nb", "jobs">>,
     MEDIA_ROOT |-> <<"nb", "media">>,
     STATIC_ROOT |-> <<"nb", "static">>,
     METRICS_ENABLED |-> FALSE,
     DATABASES |-> [default |-> [ENGINE |-> PostgresEngine]],
     PAGINATE_COUNT |-> 50,
     PER_PAGE_DEFAULTS |-> <<25, 50, 100, 250, 500, 1000>>,
     AUTHENTICATION_BACKENDS |-> <<ObjectPermissionBackend>>,
     RELEASE_CHECK_URL |-> "",
     RELEASE_CHECK_TIMEOUT |-> 86400,
     STORAGE_BACKEND |-> None,
     STORAGE_CONFIG |-> NoStorageConfig,
     DEFAULT_FILE_STORAGE |-> FileSystemStorage,
     SOCIAL_AUTH_ENABLED |-> FALSE,
     SOCIAL_AUTH_MODULE |-> GoogleOAuth2,
     BASE_PATH |-> "",
     LOGIN_URL |-> "/login/",
     INSTALLED_APPS |-> <<"nautobot.core">>,
     PLUGINS |-> <<>>,
     PLUGINS_CONFIG |-> <<>>,
     VERSION |-> "1.0.0",
     MIDDLEWARE |-> <<"django.middleware.security.SecurityMiddleware">>,
     CACHEOPS |-> <<>>]

AuthBackendLists ==
    {<<ObjectPermissionBackend>>, <<ModelBackend, ObjectPermissionBackend>>,
     <<ModelBackend>>, <<>>}
ReleaseCheckUrls == {"", MalformedUrl, WellFormedUrl}
ReleaseCheckTimeouts == {0, 3599, 3600, 86400}
StorageBackends == {None, S3Boto3Storage, FileSystemStorage, <<"storages">>}
StorageConfigs == {NoStorageConfig, AwsStorageConfig}
ImportOutcomes == {"ok", "no storages", "no dependency"}
SocialAuthModules == {GoogleOAuth2, OktaOAuth2}
BasePaths == {"", "nautobot/"}

GitRoots == {<<"nb", "git">>, <<"nb", "media">>}
JobsRoots == {<<"nb", "jobs">>, <<"nb", "git">>}
MediaRoots == {<<"nb", "media">>, <<"srv", "media">>}
StaticRoots == {<<"nb", "static">>, <<"nb", "media", "static">>}

\* The filesystems the program may start on: sets of directories closed under
\* parent, with JOBS_ROOT/__init__.py present or not.
InitialPaths ==
    {<<"nb">>, <<"nb", "jobs">>, <<"nb", "jobs", "__init__.py">>,
     <<"nb", "media">>, <<"nb", "media", "image-attachments">>}
InitialFileSystems ==
    {f \in SUBSET InitialPaths : \A path \in f : Prefixes(path) \subseteq f}

PaginateCounts == {10, 50, 75, 2000}
PerPageDefaultLists ==
    {<<>>, <<25, 50, 100>>, <<100, 25, 50>>, <<50, 50>>, <<25, 100>>,
     <<25, 50, 100, 250, 500, 1000>>}
DatabaseEngines == {PostgresEngine, PrometheusPostgresEngine, MysqlEngine}

InitEffects ==
    /\ storages_setting = "setting"
    /\ error = NoError
    /\ runs = 0
    /\ creates = <<>>
    /\ warned = 0
    /\ load_plugins_calls = <<>>
    /\ lookup = [name |-> "", default |-> "", via |-> "", value |-> ""]

\* The settings the checks and injections read, in every combination.
InitValidation ==
    /\ \E auth \in AuthBackendLists, url \in ReleaseCheckUrls,
          timeout \in ReleaseCheckTimeouts, backend \in StorageBackends,
          config \in StorageConfigs, sso \in BOOLEAN,
          module \in SocialAuthModules, base_path \in BasePaths :
          settings = [DefaultSettings EXCEPT
                        !.AUTHENTICATION_BACKENDS = auth,
                        !.RELEASE_CHECK_URL = url,
                        !.RELEASE_CHECK_TIMEOUT = timeout,
                        !.STORAGE_BACKEND = backend,
                        !.STORAGE_CONFIG = config,
                        !.SOCIAL_AUTH_ENABLED = sso,
                        !.SOCIAL_AUTH_MODULE = module,
                        !.BASE_PATH = base_path]
    /\ fs = {}
    /\ storages_import \in ImportOutcomes

\* The storage paths and the filesystem, in every combination.
InitDirectories ==
    /\ \E git \in GitRoots, jobs \in JobsRoots, media \in MediaRoots,
          static \in StaticRoots, auth \in {<<ObjectPermissionBackend>>, <<>>},
          timeout \in {3599, 86400} :
          settings = [DefaultSettings EXCEPT
                        !.GIT_ROOT = git, !.JOBS_ROOT = jobs, !.MEDIA_ROOT = media,
                        !.STATIC_ROOT = static,
                        !.AUTHENTICATION_BACKENDS = auth,
                        !.RELEASE_CHECK_TIMEOUT = timeout]
    /\ fs \in InitialFileSystems
    /\ storages_import = "ok"

\* The page sizes and the database settings, in every combination.
InitPagination ==
    /\ \E count \in PaginateCounts, per_page \in PerPageDefaultLists,
          metrics \in BOOLEAN, engine \in DatabaseEngines,
          auth \in {<<ObjectPermissionBackend>>, <<>>} :
          settings = [DefaultSettings EXCEPT
                        !.PAGINATE_COUNT = count,
                        !.PER_PAGE_DEFAULTS = per_page,
                        !.METRICS_ENABLED = metrics,
                        !.DATABASES.default.ENGINE = engine,
                        !.AUTHENTICATION_BACKENDS = auth]
    /\ fs = {}
    /\ storages_import = "ok"

Init == InitEffects /\ (InitValidation \/ InitDirectories \/ InitPagination)

Next == ConfigureSettings \/ CallSetting

Spec == Init /\ [][Next]_vars

----------------------------------------------------------------------------
(* Properties *)

\* A step that is one run of _configure_settings.
Run == runs' = runs + 1

AuthBackendPresent == ObjectPermissionBackend \in Range(settings.AUTHENTICATION_BACKENDS)
UrlSet == settings.RELEASE_CHECK_URL # ""
UrlMalformed == UrlSet /\ settings.RELEASE_CHECK_URL # WellFormedUrl
TimeoutBelowMinimum == settings.RELEASE_CHECK_TIMEOUT < 3600
StoragePluginMissing ==
    /\ settings.STORAGE_BACKEND # None
    /\ StartsWithStorages(settings.STORAGE_BACKEND)
    /\ storages_import = "no storages"
StoragePluginBroken ==
    /\ settings.STORAGE_BACKEND # None
    /\ StartsWithStorages(settings.STORAGE_BACKEND)
    /\ storages_import = "no dependency"

\* The run that ends in the primed state got as far as the media-storage section.
StorageStepReached ==
    error' \notin {ErrAuth, ErrUrl, ErrTimeout, ErrFileExists, ErrFileNotFound}

Occurrences(seq, v) == Cardinality({i \in 1..Len(seq) : seq[i] = v})

\* C1 (as claimed): a run on a settings object whose release-check URL is set and
\* malformed raises a configuration error, and a run with a well-formed URL and
\* all other settings valid raises nothing.
C1_MalformedUrlRejected ==
    [][Run =>
        /\ (UrlMalformed => error' \in ImproperlyConfigured)
        /\ (UrlSet /\ ~UrlMalformed /\ AuthBackendPresent /\ ~TimeoutBelowMinimum
              /\ ~StoragePluginMissing /\ ~StoragePluginBroken => error' = NoError)]_vars

\* C2: a run on a settings object whose AUTHENTICATION_BACKENDS lacks the
\* ObjectPermissionBackend raises the authentication configuration error, whatever
\* the other settings are; when the backend is present that error is not raised.
C2_MissingAuthBackendRejected ==
    [][Run =>
        /\ (~AuthBackendPresent => error' = ErrAuth)
        /\ (AuthBackendPresent => error' # ErrAuth)]_vars

C2_Witness ==
    /\ runs >= 1
    /\ ~AuthBackendPresent
    /\ settings.SOCIAL_AUTH_ENABLED
    /\ settings.AUTHENTICATION_BACKENDS = <<ModelBackend>>
    /\ error = ErrAuth

\* C3: with all other settings valid, a run raises the timeout configuration error
\* exactly when RELEASE_CHECK_TIMEOUT is below 3600, and raises nothing otherwise,
\* whether or not a release-check URL is set.
C3_TimeoutThreshold ==
    [][Run /\ AuthBackendPresent /\ ~UrlMalformed /\ ~StoragePluginMissing
           /\ ~StoragePluginBroken =>
        /\ (settings.RELEASE_CHECK_TIMEOUT <= 3599 => error' = ErrTimeout)
        /\ (settings.RELEASE_CHECK_TIMEOUT >= 3600 => error' = NoError)]_vars

C3_Witness ==
    /\ runs >= 1
    /\ settings.RELEASE_CHECK_TIMEOUT = 3599
    /\ settings.RELEASE_CHECK_URL = WellFormedUrl
    /\ AuthBackendPresent
    /\ error = ErrTimeout

\* C4: a run with a PAGINATE_COUNT that is not in PER_PAGE_DEFAULTS leaves the list
\* sorted ascending, holding the value once and every previous element as often as
\* before; and every run after the first leaves the list unchanged.
C4_PaginationSortedIdempotent ==
    [][Run =>
        /\ (settings.PAGINATE_COUNT \notin Range(settings.PER_PAGE_DEFAULTS) =>
              /\ settings.PAGINATE_COUNT \in Range(settings'.PER_PAGE_DEFAULTS)
              /\ \A i, j \in 1..Len(settings'.PER_PAGE_DEFAULTS) :
                    i < j => settings'.PER_PAGE_DEFAULTS[i] <= settings'.PER_PAGE_DEFAULTS[j]
              /\ Occurrences(settings'.PER_PAGE_DEFAULTS, settings.PAGINATE_COUNT) = 1
              /\ Len(settings'.PER_PAGE_DEFAULTS) = Len(settings.PER_PAGE_DEFAULTS) + 1
              /\ \A v \in Range(settings.PER_PAGE_DEFAULTS) :
                    Occurrences(settings'.PER_PAGE_DEFAULTS, v)
                        = Occurrences(settings.PER_PAGE_DEFAULTS, v))
        /\ (runs >= 1 => settings'.PER_PAGE_DEFAULTS = settings.PER_PAGE_DEFAULTS)]_vars

C4_Witness ==
    /\ runs >= 2
    /\ settings.PAGINATE_COUNT = 75
    /\ settings.PER_PAGE_DEFAULTS = <<25, 50, 75, 100>>

\* C5 (as claimed): after a successful run with SOCIAL_AUTH_ENABLED the first
\* authentication backend is SOCIAL_AUTH_MODULE and LOGIN_URL is
\* {BASE_PATH}login/{backend name}/; with SOCIAL_AUTH_ENABLED false the run leaves
\* AUTHENTICATION_BACKENDS and LOGIN_URL unchanged.
C5_LoginUrlAsClaimed ==
    [][Run =>
        /\ (settings.SOCIAL_AUTH_ENABLED /\ error' = NoError =>
              /\ Head(settings'.AUTHENTICATION_BACKENDS) = settings.SOCIAL_AUTH_MODULE
              /\ settings'.LOGIN_URL =
                    settings.BASE_PATH \o "login/"
                        \o get_sso_backend_name(settings.SOCIAL_AUTH_MODULE) \o "/")
        /\ (~settings.SOCIAL_AUTH_ENABLED =>
              /\ settings'.AUTHENTICATION_BACKENDS = settings.AUTHENTICATION_BACKENDS
              /\ settings'.LOGIN_URL = settings.LOGIN_URL)]_vars

\* C5 (amended): after a successful run with SOCIAL_AUTH_ENABLED the first
\* authentication backend is SOCIAL_AUTH_MODULE and LOGIN_URL is a slash followed
\* by {BASE_PATH}login/{backend name}/; with SOCIAL_AUTH_ENABLED false the run
\* leaves AUTHENTICATION_BACKENDS and LOGIN_URL unchanged.
C5_LoginUrlWithLeadingSlash ==
    [][Run =>
        /\ (settings.SOCIAL_AUTH_ENABLED /\ error' = NoError =>
              /\ Head(settings'.AUTHENTICATION_BACKENDS) = settings.SOCIAL_AUTH_MODULE
              /\ settings'.LOGIN_URL =
                    "/" \o settings.BASE_PATH \o "login/"
                        \o get_sso_backend_name(settings.SOCIAL_AUTH_MODULE) \o "/")
        /\ (~settings.SOCIAL_AUTH_ENABLED =>
              /\ settings'.AUTHENTICATION_BACKENDS = settings.AUTHENTICATION_BACKENDS
              /\ settings'.LOGIN_URL = settings.LOGIN_URL)]_vars

C5_Witness ==
    /\ runs = 1
    /\ error = NoError
    /\ settings.SOCIAL_AUTH_ENABLED
    /\ settings.SOCIAL_AUTH_MODULE = OktaOAuth2
    /\ settings.BASE_PATH = "nautobot/"
    /\ settings.AUTHENTICATION_BACKENDS = <<OktaOAuth2, ModelBackend, ObjectPermissionBackend>>
    /\ settings.LOGIN_URL = "/nautobot/login/okta-oauth2/"

\* C6: every run leaves GIT_ROOT, JOBS_ROOT, JOBS_ROOT/__init__.py, MEDIA_ROOT, its
\* two subdirectories and STATIC_ROOT existing and raises no filesystem error; a
\* run after the first performs no create operation and leaves the filesystem as
\* it was.
C6_DirectoriesIdempotent ==
    [][Run =>
        /\ StoragePaths(settings) \subseteq fs'
        /\ error' \notin {ErrFileExists, ErrFileNotFound}
        /\ (runs >= 1 => creates' = <<>> /\ fs' = fs)]_vars

C6_Witness ==
    /\ runs = 2
    /\ creates = <<>>
    /\ error = NoError
    /\ settings.GIT_ROOT = <<"nb", "media">>
    /\ settings.STATIC_ROOT = <<"nb", "media", "static">>
    /\ StoragePaths(settings) \subseteq fs

\* C7 (as claimed): a run that raises a configuration error applies no SSO
\* injection and does not call load_plugins; and when one or more of the error
\* conditions hold, the error raised is that of the earliest check: authentication
\* backend, then release-check URL, then timeout, then storage plugin.
C7_FailFastInOrder ==
    [][Run =>
        /\ (error' \in ImproperlyConfigured =>
              /\ settings'.INSTALLED_APPS = settings.INSTALLED_APPS
              /\ settings'.AUTHENTICATION_BACKENDS = settings.AUTHENTICATION_BACKENDS
              /\ settings'.LOGIN_URL = settings.LOGIN_URL
              /\ load_plugins_calls' = load_plugins_calls)
        /\ (~AuthBackendPresent => error' = ErrAuth)
        /\ (AuthBackendPresent /\ UrlMalformed => error' = ErrUrl)
        /\ (AuthBackendPresent /\ ~UrlMalformed /\ TimeoutBelowMinimum =>
              error' = ErrTimeout)
        /\ (AuthBackendPresent /\ ~UrlMalformed /\ ~TimeoutBelowMinimum
              /\ StoragePluginMissing => error' = ErrStorage)]_vars

\* C8: a run that reaches the media-storage section with STORAGE_BACKEND set leaves
\* DEFAULT_FILE_STORAGE equal to it; if the backend starts with "storages." the run
\* raises the storage configuration error when the storages module is not
\* installed, and rebinds storages.utils.setting when it is, after which a lookup
\* of a name present in STORAGE_CONFIG returns STORAGE_CONFIG[name].  A run with
\* STORAGE_BACKEND None changes neither DEFAULT_FILE_STORAGE nor the lookup function.
C8_MediaStorage ==
    [][/\ (Run /\ StorageStepReached /\ settings.STORAGE_BACKEND # None =>
              /\ settings'.DEFAULT_FILE_STORAGE = settings.STORAGE_BACKEND
              /\ (StartsWithStorages(settings.STORAGE_BACKEND)
                    /\ storages_import = "no storages" => error' = ErrStorage)
              /\ (StartsWithStorages(settings.STORAGE_BACKEND)
                    /\ storages_import = "ok" => storages_setting' = "_setting"))
       /\ (Run /\ settings.STORAGE_BACKEND = None =>
              /\ settings'.DEFAULT_FILE_STORAGE = settings.DEFAULT_FILE_STORAGE
              /\ storages_setting' = storages_setting
              /\ error' \notin {ErrStorage, ErrModuleNotFound})
       /\ (lookup' # lookup /\ storages_setting = "_setting"
              /\ lookup'.name \in DOMAIN settings.STORAGE_CONFIG =>
              lookup'.value = settings.STORAGE_CONFIG[lookup'.name])]_vars

C8_Witness ==
    /\ runs >= 1
    /\ error = NoError
    /\ settings.STORAGE_BACKEND = S3Boto3Storage
    /\ settings.DEFAULT_FILE_STORAGE = S3Boto3Storage
    /\ storages_setting = "_setting"
    /\ lookup.via = "_setting"
    /\ lookup.name = "AWS_LOCATION"
    /\ lookup.value = "nautobot"

\* C9: a run that reaches the storage warning with STORAGE_CONFIG non-empty and
\* STORAGE_BACKEND None emits one warning and raises nothing: DEFAULT_FILE_STORAGE
\* is unchanged, the SSO injection is applied when enabled and load_plugins is
\* called.  A run with STORAGE_BACKEND set or STORAGE_CONFIG empty emits no warning.
C9_StorageWarningNotFatal ==
    [][Run =>
        /\ (StorageStepReached /\ DOMAIN settings.STORAGE_CONFIG # {}
              /\ settings.STORAGE_BACKEND = None =>
              /\ warned' = 1
              /\ error' = NoError
              /\ settings'.DEFAULT_FILE_STORAGE = settings.DEFAULT_FILE_STORAGE
              /\ (settings.SOCIAL_AUTH_ENABLED =>
                    /\ Len(settings'.INSTALLED_APPS) = Len(settings.INSTALLED_APPS) + 1
                    /\ Head(settings'.AUTHENTICATION_BACKENDS) = settings.SOCIAL_AUTH_MODULE)
              /\ Len(load_plugins_calls') = Len(load_plugins_calls) + 1)
        /\ (settings.STORAGE_BACKEND # None \/ DOMAIN settings.STORAGE_CONFIG = {} =>
              warned' = 0)]_vars

C9_Witness ==
    /\ runs = 1
    /\ warned = 1
    /\ error = NoError
    /\ settings.STORAGE_CONFIG = AwsStorageConfig
    /\ settings.STORAGE_BACKEND = None
    /\ settings.SOCIAL_AUTH_ENABLED
    /\ settings.INSTALLED_APPS = <<"nautobot.core", "social_django">>
    /\ Len(load_plugins_calls) = 1

\* C10: a successful run with SOCIAL_AUTH_ENABLED leaves AUTHENTICATION_BACKENDS equal
\* to SOCIAL_AUTH_MODULE followed by the previous list (which still holds the
\* ObjectPermissionBackend) and passes load_plugins the previous INSTALLED_APPS
\* followed by one "social_django"; so every such run lengthens both lists by one.
C10_SsoAddsOncePerRun ==
    [][Run /\ settings.SOCIAL_AUTH_ENABLED /\ error' = NoError =>
        /\ settings'.AUTHENTICATION_BACKENDS =
              <<settings.SOCIAL_AUTH_MODULE>> \o settings.AUTHENTICATION_BACKENDS
        /\ ObjectPermissionBackend \in Range(settings'.AUTHENTICATION_BACKENDS)
        /\ Len(load_plugins_calls') = Len(load_plugins_calls) + 1
        /\ load_plugins_calls'[Len(load_plugins_calls')].INSTALLED_APPS =
              Append(settings.INSTALLED_APPS, "social_django")
        /\ Len(settings'.AUTHENTICATION_BACKENDS)
              = Len(settings.AUTHENTICATION_BACKENDS) + 1
        /\ Len(settings'.INSTALLED_APPS) = Len(settings.INSTALLED_APPS) + 1]_vars

C10_Witness ==
    /\ runs = 2
    /\ error = NoError
    /\ settings.SOCIAL_AUTH_ENABLED
    /\ settings.AUTHENTICATION_BACKENDS =
          <<GoogleOAuth2, GoogleOAuth2, ModelBackend, ObjectPermissionBackend>>
    /\ settings.INSTALLED_APPS = <<"nautobot.core", "social_django", "social_django">>
    /\ Len(load_plugins_calls) = 2

====
